---------------------------- MODULE Spec2Model ----------------------------
(***************************************************************************)
(* A model of groupelo.py: Elo ratings for multi-player, multi-team        *)
(* matches.  main() reads a file of match records and, for each category   *)
(* of CATEGORIES in turn, builds an Elo instance, feeds it every line      *)
(* through Elo.process and prints its tables.                              *)
(*                                                                         *)
(* Text is modelled as sequences of one-character strings, so that         *)
(* strip, split, startswith, count and the mark-stripping loops are        *)
(* computed character by character as Python computes them.                *)
(*                                                                         *)
(* Ratings are Python floats.  They are modelled as exact rationals        *)
(* <<numerator, denominator>> in lowest terms; a rating sum or a division  *)
(* by the opponent count is therefore exact.  The one transcendental       *)
(* function, 10 ** x in win_expectancy, is tabulated: the rating           *)
(* difference is rounded to the nearest multiple of WeStep rating points   *)
(* and the expectancy is the value of the source formula at that point,    *)
(* rounded to thousandths.                                                 *)
(***************************************************************************)
EXTENDS Integers, Sequences, FiniteSets, TLC

---------------------------------------------------------------------------
(* Bounds of the model. *)

\* The number of lines of the input file.
MaxLines == 2

---------------------------------------------------------------------------
(* Python string methods, on sequences of characters. *)

Whitespace == {" "}

RECURSIVE lstrip(_)
lstrip(s) ==
  IF s # <<>> /\ Head(s) \in Whitespace THEN lstrip(Tail(s)) ELSE s

RECURSIVE rstrip(_)
rstrip(s) ==
  IF s # <<>> /\ s[Len(s)] \in Whitespace
  THEN rstrip(SubSeq(s, 1, Len(s) - 1))
  ELSE s

\* str.strip()
strip(s) == rstrip(lstrip(s))

\* str.split(sep): the pieces between the occurrences of sep; a string
\* without sep, the empty string included, gives one piece.
RECURSIVE split(_, _)
split(s, sep) ==
  IF \E i \in 1..Len(s) : s[i] = sep
  THEN LET i == CHOOSE i \in 1..Len(s) :
                  s[i] = sep /\ \A j \in 1..(i - 1) : s[j] # sep
       IN  <<SubSeq(s, 1, i - 1)>> \o split(SubSeq(s, i + 1, Len(s)), sep)
  ELSE <<s>>

\* str.startswith(ch) and str.endswith(ch) for a one-character ch
startswith(s, ch) == s # <<>> /\ s[1] = ch
endswith(s, ch) == s # <<>> /\ s[Len(s)] = ch

\* str.count(ch) for a one-character ch
count(s, ch) == Cardinality({i \in 1..Len(s) : s[i] = ch})

---------------------------------------------------------------------------
(* Exact rationals <<n, d>>, d > 0, in lowest terms. *)

Abs(x) == IF x < 0 THEN -x ELSE x

RECURSIVE GCD(_, _)
GCD(a, b) == IF b = 0 THEN a ELSE GCD(b, a % b)

Reduce(n, d, g) ==
  IF d < 0 THEN <<-(n \div g), -(d \div g)>> ELSE <<n \div g, d \div g>>

Norm(n, d) == Reduce(n, d, GCD(Abs(n), Abs(d)))

Rat(n) == <<n, 1>>
RAdd(a, b) == Norm(a[1] * b[2] + b[1] * a[2], a[2] * b[2])
RSub(a, b) == Norm(a[1] * b[2] - b[1] * a[2], a[2] * b[2])
RMulInt(a, k) == Norm(a[1] * k, a[2])
\* a / k for an integer k; k = 0 is Python's ZeroDivisionError and is an
\* evaluation error here as well.
RDivInt(a, k) ==
  IF k = 0 THEN Norm(a[1] \div k, a[2]) ELSE Norm(a[1], a[2] * k)

---------------------------------------------------------------------------
(* defaultdict: a function on the keys inserted so far. *)

EmptyDict == <<>>
Get(t, k, default) == IF k \in DOMAIN t THEN t[k] ELSE default
Put(t, k, v) == [x \in (DOMAIN t) \cup {k} |-> IF x = k THEN v ELSE t[x]]

---------------------------------------------------------------------------
(* Module-level constants and functions of groupelo.py. *)

STARTING_RATING == 1500

OVERALL == <<"o", "v", "e", "r", "a", "l", "l">>
GROUP == <<"g", "r", "o", "u", "p">>
INDIVIDUAL == <<"i", "n", "d", "i", "v", "i", "d", "u", "a", "l">>
ARMED == <<"a", "r", "m", "e", "d">>
UNARMED == <<"u", "n", "a", "r", "m", "e", "d">>
TOURNAMENT == <<"t", "o", "u", "r", "n", "a", "m", "e", "n", "t">>
EXHIBITION == <<"e", "x", "h", "i", "b", "i", "t", "i", "o", "n">>

CATEGORIES ==
  <<OVERALL, GROUP, INDIVIDUAL, ARMED, UNARMED, TOURNAMENT, EXHIBITION>>

\* explode(li): one team (a list of trimmed tokens) per field.
explode(li) ==
  [i \in 1..Len(li) |->
     LET li2 == split(li[i], "&")
     IN  [k \in 1..Len(li2) |-> strip(li2[k])]]

\* The tabulation of win_expectancy: entry k + 1 is
\* round(1000 / (10 ** (-(WeStep * k) / 400.0) + 1)), the expectancy in
\* thousandths of the player who is WeStep * k points ahead.
WeStep == 25
WeScale == 1000
WeTable ==
  <<500, 536, 571, 606, 640, 673, 703, 733, 760, 785, 808,
    830, 849, 867, 882, 896, 909, 920, 930, 939, 947, 954,
    960, 965, 969, 973, 977, 980, 983, 985, 987, 989, 990>>

\* The table entry for a rating difference of n / d in absolute value:
\* n / d rounded to the nearest multiple of WeStep (halves upwards), and
\* beyond the table its last entry.
we_entry(n, d) ==
  IF (2 * n + WeStep * d) \div (2 * WeStep * d) + 1 > Len(WeTable)
  THEN WeTable[Len(WeTable)]
  ELSE WeTable[(2 * n + WeStep * d) \div (2 * WeStep * d) + 1]

\* The expectancy of the player who is diff ahead (behind, if negative).
we_ahead(diff) ==
  IF diff[1] >= 0
  THEN Norm(we_entry(diff[1], diff[2]), WeScale)
  ELSE Norm(WeScale - we_entry(-diff[1], diff[2]), WeScale)

\* win_expectancy(r1, r2) = 1.0 / (10 ** ((r2 - r1) / 400.0) + 1)
win_expectancy(r1, r2) == we_ahead(RSub(r1, r2))

K == 50

\* rating_delta with the customary k = 32 in place of 50.
rating_delta_k32(r1, r2, w) == RMulInt(RSub(w, win_expectancy(r1, r2)), 32)

\* rating_delta(r1, r2, w) = k * (w - we)
rating_delta(r1, r2, w) == RMulInt(RSub(w, win_expectancy(r1, r2)), K)

\* bare_name(name): name without any trailing '*' or '!' characters.
RECURSIVE bare_name(_)
bare_name(name) ==
  IF name # <<>> /\ (name[Len(name)] = "*" \/ name[Len(name)] = "!")
  THEN bare_name(SubSeq(name, 1, Len(name) - 1))
  ELSE name

---------------------------------------------------------------------------
(* class Elo *)

\* Elo.__init__: the five tables start empty.  (self.lines is the input
\* file, the variable lines below.)
NewElo(category) ==
  [category |-> category,
   ratings  |-> EmptyDict,
   wins     |-> EmptyDict,
   losses   |-> EmptyDict,
   killings |-> EmptyDict,
   maimings |-> EmptyDict]

\* wrong_category with "and" for "or" in the test of "individual".
wrong_category_and(category, winner_lists, loser_lists, armed_unarmed, tournament_exhibition) ==
  IF category = OVERALL THEN FALSE
  ELSE IF category = GROUP
    THEN Len(winner_lists[1]) = 1 /\ Len(loser_lists) = 1
  ELSE IF category = INDIVIDUAL
    THEN Len(winner_lists[1]) > 1 /\ Len(loser_lists) > 1
  ELSE IF category = ARMED THEN armed_unarmed # category
  ELSE IF category = UNARMED THEN armed_unarmed # category
  ELSE IF category = TOURNAMENT THEN tournament_exhibition # category
  ELSE IF category = EXHIBITION THEN tournament_exhibition # category
  ELSE FALSE

\* "Filter out results for the wrong category of fight": TRUE when
\* process returns before it touches any table.
wrong_category(category, winner_lists, loser_lists, armed_unarmed, tournament_exhibition) ==
  IF category = OVERALL THEN FALSE
  ELSE IF category = GROUP
    THEN Len(winner_lists[1]) = 1 /\ Len(loser_lists) = 1
  ELSE IF category = INDIVIDUAL
    THEN Len(winner_lists[1]) > 1 \/ Len(loser_lists) > 1
  ELSE IF category = ARMED THEN armed_unarmed # category
  ELSE IF category = UNARMED THEN armed_unarmed # category
  ELSE IF category = TOURNAMENT THEN tournament_exhibition # category
  ELSE IF category = EXHIBITION THEN tournament_exhibition # category
  ELSE FALSE

\* The tokens of a list of teams with their places <<team, member>>, in
\* the order in which "for team in lists: for token in team" visits them,
\* starting at team number from.
RECURSIVE tokens_from(_, _)
tokens_from(lists, from) ==
  IF from > Len(lists) THEN <<>>
  ELSE [k \in 1..Len(lists[from]) |->
          [at |-> <<from, k>>, token |-> lists[from][k]]]
       \o tokens_from(lists, from + 1)

\* self.wins[name] += 1 or self.losses[name] += 1, and the '!' and '*' of
\* the token added to self.killings[name] and self.maimings[name].
credit_name(self, name, token, won) ==
  [self EXCEPT
     !.wins     = IF won THEN Put(@, name, Get(@, name, 0) + 1) ELSE @,
     !.losses   = IF won THEN @ ELSE Put(@, name, Get(@, name, 0) + 1),
     !.killings = Put(@, name, Get(@, name, 0) + count(token, "!")),
     !.maimings = Put(@, name, Get(@, name, 0) + count(token, "*"))]

\* credit with the call of bare_name forgotten: the token, marks and all,
\* is the key.
credit_raw(self, token, won) == credit_name(self, token, token, won)

\* The body of the two statistics loops: name = bare_name(token).
credit(self, token, won) == credit_name(self, bare_name(token), token, won)

RECURSIVE credit_all(_, _, _)
credit_all(self, toks, won) ==
  IF toks = <<>> THEN self
  ELSE credit_all(credit(self, Head(toks).token, won), Tail(toks), won)

\* The loops "while tok and (tok[-1] == '*' or tok[-1] == '!')" and
\* "while tok and (tok.endswith('*') or tok.endswith('!'))" that process
\* runs on loser, winner and loser2 before it uses them as keys.
RECURSIVE strip_marks(_)
strip_marks(tok) ==
  IF tok # <<>> /\ (endswith(tok, "*") \/ endswith(tok, "!"))
  THEN strip_marks(SubSeq(tok, 1, Len(tok) - 1))
  ELSE tok

\* self.ratings[name] on the defaultdict: reading an absent key inserts
\* STARTING_RATING.
touch(ratings, name) ==
  IF name \in DOMAIN ratings THEN ratings
  ELSE Put(ratings, name, Rat(STARTING_RATING))

\* transfer with the debit forgotten: only deltas[first] += delta.
transfer_one_sided(deltas, first, second, delta) ==
  Put(deltas, first, RAdd(Get(deltas, first, Rat(0)), delta))

\* deltas[first] += delta; deltas[second] -= delta  (deltas is a
\* defaultdict(int))
transfer(deltas, first, second, delta) ==
  Put(Put(deltas, first, RAdd(Get(deltas, first, Rat(0)), delta)),
      second,
      RSub(Get(Put(deltas, first, RAdd(Get(deltas, first, Rat(0)), delta)),
               second, Rat(0)),
           delta))

\* played with the delta written to self.ratings at once, instead of
\* being kept in deltas until the loops end.
played_eager(st, ratings, entry) ==
  [st EXCEPT
     !.opponent_count = @ + 1,
     !.ratings =
       Put(Put(ratings, entry.first, RAdd(ratings[entry.first], entry.delta)),
           entry.second,
           RSub(Put(ratings, entry.first,
                    RAdd(ratings[entry.first], entry.delta))[entry.second],
                entry.delta)),
     !.deltas = transfer(@, entry.first, entry.second, entry.delta),
     !.log = Append(@, entry)]

\* The state of the nested loops of process: self.ratings, deltas and
\* opponent_count, and two records of what the loops did: log lists the
\* calls of rating_delta, counts the value of opponent_count at the end
\* of each pass of "for loser in loser_list".
\* One sub-contest with the ratings r1 and r2 read:
played(st, ratings, entry) ==
  [st EXCEPT
     !.opponent_count = @ + 1,
     !.ratings = ratings,
     !.deltas = transfer(@, entry.first, entry.second, entry.delta),
     !.log = Append(@, entry)]

\* r1 = self.ratings[first]; r2 = self.ratings[second];
\* delta = rating_delta(r1, r2, w), from the table with both keys read.
rated(st, ratings, first, second, w, at, opp_at) ==
  played(st, ratings,
         [first |-> first, second |-> second, w |-> w,
          loser |-> at, opp |-> opp_at,
          r1 |-> ratings[first], r2 |-> ratings[second],
          delta |-> rating_delta(ratings[first], ratings[second], w)])

\* One pass of an innermost loop body.
\* A winner against loser: rating_delta(wr, lr, 1), the delta is the
\* winner's.  loser against a later loser2: rating_delta(r1, r2, 0.5), the
\* delta is loser's.
sub_contest(st, loser, at, opp, win) ==
  IF win
  THEN rated(st, touch(touch(st.ratings, strip_marks(opp.token)), loser),
             strip_marks(opp.token), loser, Rat(1), at, opp.at)
  ELSE rated(st, touch(touch(st.ratings, loser), strip_marks(opp.token)),
             loser, strip_marks(opp.token), Norm(1, 2), at, opp.at)

RECURSIVE sub_contests(_, _, _, _, _)
sub_contests(st, loser, at, opps, win) ==
  IF opps = <<>> THEN st
  ELSE sub_contests(sub_contest(st, loser, at, Head(opps), win),
                    loser, at, Tail(opps), win)

\* later_losers with the range starting at ii instead of ii + 1: the
\* loser's own team is paired too.
later_losers_from_own(loser_lists, ii) == tokens_from(loser_lists, ii)

\* "Only the losers after this one, to avoid double-counting."
later_losers(loser_lists, ii) == tokens_from(loser_lists, ii + 1)

\* The end of one pass of "for loser in loser_list".
counted(st) == [st EXCEPT !.counts = Append(@, st.opponent_count)]

\* one_loser with "opponent_count = 0" hoisted out of the loop: the count
\* runs on from one loser to the next.
one_loser_running(st, winner_lists, loser_lists, tok) ==
  counted(
    sub_contests(
      sub_contests(st, strip_marks(tok.token), tok.at,
                   tokens_from(winner_lists, 1), TRUE),
      strip_marks(tok.token), tok.at,
      later_losers(loser_lists, tok.at[1]), FALSE))

\* The body of "for loser in loser_list": opponent_count = 0, then every
\* winner, then every loser of a later team.
one_loser(st, winner_lists, loser_lists, tok) ==
  counted(
    sub_contests(
      sub_contests([st EXCEPT !.opponent_count = 0],
                   strip_marks(tok.token), tok.at,
                   tokens_from(winner_lists, 1), TRUE),
      strip_marks(tok.token), tok.at,
      later_losers(loser_lists, tok.at[1]), FALSE))

RECURSIVE all_losers(_, _, _, _)
all_losers(st, winner_lists, loser_lists, toks) ==
  IF toks = <<>> THEN st
  ELSE all_losers(one_loser(st, winner_lists, loser_lists, Head(toks)),
                  winner_lists, loser_lists, Tail(toks))

\* adjusted_deltas[key] = value / opponent_count
adjust(deltas, opponent_count) ==
  [key \in DOMAIN deltas |-> RDivInt(deltas[key], opponent_count)]

\* self.ratings[name] += delta, for every name of adjusted_deltas
add_deltas(ratings, adjusted_deltas) ==
  [name \in (DOMAIN ratings) \cup (DOMAIN adjusted_deltas) |->
     IF name \in DOMAIN adjusted_deltas
     THEN RAdd(Get(ratings, name, Rat(STARTING_RATING)),
               adjusted_deltas[name])
     ELSE ratings[name]]

\* What a call of process leaves behind: how it ended, the instance at
\* entry (before) and as it returns (self), and the values of its locals
\* at that point (loops is the state of the nested loops when they end).
NoLoops ==
  [ratings |-> EmptyDict, deltas |-> EmptyDict, opponent_count |-> 0,
   log |-> <<>>, counts |-> <<>>]

returned(outcome, before, self, winner_lists, loser_lists, loops, adjusted) ==
  [outcome |-> outcome, before |-> before, self |-> self,
   winner_lists |-> winner_lists, loser_lists |-> loser_lists,
   loops |-> loops, adjusted_deltas |-> adjusted]

\* The last two loops of process: the deltas are divided by
\* opponent_count and added to self.ratings.
process_commit(self, tallied, winner_lists, loser_lists, loops, adjusted) ==
  returned("applied", self,
           [tallied EXCEPT !.ratings = add_deltas(loops.ratings, adjusted)],
           winner_lists, loser_lists, loops, adjusted)

process_adjust(self, tallied, winner_lists, loser_lists, loops) ==
  process_commit(self, tallied, winner_lists, loser_lists, loops,
                 adjust(loops.deltas, loops.opponent_count))

\* process from the category filter on: return for the wrong category;
\* else the statistics loops, the nested rating loops over the ratings as
\* they are (opponent_count is not yet bound: 0 stands for that), and
\* the commit.
process_match(self, armed_unarmed, tournament_exhibition, winner_lists, loser_lists) ==
  IF wrong_category(self.category, winner_lists, loser_lists,
                    armed_unarmed, tournament_exhibition)
  THEN returned("filtered", self, self, winner_lists, loser_lists,
                NoLoops, EmptyDict)
  ELSE process_adjust(
         self,
         credit_all(credit_all(self, tokens_from(winner_lists, 1), TRUE),
                    tokens_from(loser_lists, 1), FALSE),
         winner_lists, loser_lists,
         all_losers([NoLoops EXCEPT !.ratings = self.ratings],
                    winner_lists, loser_lists,
                    tokens_from(loser_lists, 1)))

\* process from "assert len(parts) >= 4" on: winners = [parts[3]],
\* losers = parts[4:], both exploded.
process_parts(self, parts) ==
  IF ~(Len(parts) >= 4)
  THEN returned("raised", self, self, <<>>, <<>>, NoLoops, EmptyDict)
  ELSE process_match(self, strip(parts[2]), strip(parts[3]),
                     explode(<<parts[4]>>),
                     explode(SubSeq(parts, 5, Len(parts))))

\* process after "line = line.strip()"
process_line(self, line) ==
  IF line = <<>> \/ startswith(line, "#")
  THEN returned("skipped", self, self, <<>>, <<>>, NoLoops, EmptyDict)
  ELSE process_parts(self, split(line, ","))

\* Elo.process(line).  Outcomes: "skipped" (blank or comment line),
\* "raised" (the assert on the number of fields fails), "filtered" (wrong
\* category), "applied".
process(self, line) == process_line(self, strip(line))

---------------------------------------------------------------------------
(* Elo.output: the report, best rating first. *)

\* The characters of the model in code-point order.
Chars ==
  <<" ", "!", "#", "&", "*", ",", "1", "2", "3", "4", "5", "6", "7", "8",
    "A", "B", "C", "D", "a", "b", "c", "d", "e", "h", "i", "l", "m", "n",
    "o", "r", "t", "u", "v", "x">>

Ord(ch) == CHOOSE i \in 1..Len(Chars) : Chars[i] = ch

\* a < b for strings
RECURSIVE str_less(_, _)
str_less(a, b) ==
  IF b = <<>> THEN FALSE
  ELSE IF a = <<>> THEN TRUE
  ELSE IF Head(a) # Head(b) THEN Ord(Head(a)) < Ord(Head(b))
  ELSE str_less(Tail(a), Tail(b))

RLess(a, b) == a[1] * b[2] < b[1] * a[2]

\* (rating, name) < (rating, name) for tuples
pair_less(x, y) ==
  RLess(x[1], y[1]) \/ (x[1] = y[1] /\ str_less(x[2], y[2]))

\* sorted(pairs, reverse=True)
RECURSIVE sorted_reverse(_)
sorted_reverse(pairs) ==
  IF pairs = {} THEN <<>>
  ELSE LET top == CHOOSE x \in pairs :
                    \A y \in pairs \ {x} : pair_less(y, x)
       IN  <<top>> \o sorted_reverse(pairs \ {top})

\* "%.3f" % rating: the rating in thousandths, rounded to the nearest.
thousandths(r) ==
  IF r[1] < 0
  THEN -((2 * 1000 * (-r[1]) + r[2]) \div (2 * r[2]))
  ELSE (2 * 1000 * r[1] + r[2]) \div (2 * r[2])

\* One printed line: "%.3f %s (%d-%d) %dk, %dm"
report_row(self, rating, name) ==
  [rating |-> thousandths(rating),
   name |-> name,
   wins |-> Get(self.wins, name, 0),
   losses |-> Get(self.losses, name, 0),
   killings |-> Get(self.killings, name, 0),
   maimings |-> Get(self.maimings, name, 0)]

report(self, sorted_ratings) ==
  [category |-> self.category,
   rows |-> [i \in 1..Len(sorted_ratings) |->
               report_row(self, sorted_ratings[i][1], sorted_ratings[i][2])]]

output(self) ==
  report(self, sorted_reverse({<<self.ratings[name], name>> :
                                 name \in DOMAIN self.ratings}))

---------------------------------------------------------------------------
(* The lines an input file is made of. *)

\* "  ": a blank line
LineBlank ==
  <<" ", " ">>

\* "# x": a comment
LineComment ==
  <<"#", " ", "x">>

\* "1,Alice,Bob": no category fields
LineThreeFields ==
  <<"1", ",", "A", "l", "i", "c", "e", ",", "B", "o", "b">>

\* "1,Alice,Bob&Carol": no category fields, a team
LineThreeFieldsTeam ==
  <<"1", ",", "A", "l", "i", "c", "e", ",", "B", "o", "b", "&", "C", "a",
    "r", "o", "l">>

\* "1,armed,tournament,Alice": a winner field and no loser field
LineNoLoser ==
  <<"1", ",", "a", "r", "m", "e", "d", ",", "t", "o", "u", "r", "n", "a",
    "m", "e", "n", "t", ",", "A", "l", "i", "c", "e">>

\* "1,armed,tournament,Alice,Bob": one against one
LineDuel ==
  <<"1", ",", "a", "r", "m", "e", "d", ",", "t", "o", "u", "r", "n", "a",
    "m", "e", "n", "t", ",", "A", "l", "i", "c", "e", ",", "B", "o", "b">>

\* "2,unarmed,exhibition,Bob,Alice": one against one, the other way
LineRematch ==
  <<"2", ",", "u", "n", "a", "r", "m", "e", "d", ",", "e", "x", "h", "i",
    "b", "i", "t", "i", "o", "n", ",", "B", "o", "b", ",", "A", "l", "i",
    "c", "e">>

\* "1,armed,exhibition,Alice,Bob&Carol": one against a team of two
LineOneVsTeam ==
  <<"1", ",", "a", "r", "m", "e", "d", ",", "e", "x", "h", "i", "b", "i",
    "t", "i", "o", "n", ",", "A", "l", "i", "c", "e", ",", "B", "o", "b",
    "&", "C", "a", "r", "o", "l">>

\* "1,armed,tournament,Alice,Bob,Carol": two losing sides
LineThreeWay ==
  <<"1", ",", "a", "r", "m", "e", "d", ",", "t", "o", "u", "r", "n", "a",
    "m", "e", "n", "t", ",", "A", "l", "i", "c", "e", ",", "B", "o", "b",
    ",", "C", "a", "r", "o", "l">>

\* "3,unarmed,tournament,Alice&Bob,Carol": a winning team
LineTeamWins ==
  <<"3", ",", "u", "n", "a", "r", "m", "e", "d", ",", "t", "o", "u", "r",
    "n", "a", "m", "e", "n", "t", ",", "A", "l", "i", "c", "e", "&", "B",
    "o", "b", ",", "C", "a", "r", "o", "l">>

\* "4,armed,tournament,Dave!!*,Bob*": tokens with marks
LineMarks ==
  <<"4", ",", "a", "r", "m", "e", "d", ",", "t", "o", "u", "r", "n", "a",
    "m", "e", "n", "t", ",", "D", "a", "v", "e", "!", "!", "*", ",", "B",
    "o", "b", "*">>

\* "5,armed,tournament,,Bob": an empty winners field
LineEmptyWinner ==
  <<"5", ",", "a", "r", "m", "e", "d", ",", "t", "o", "u", "r", "n", "a",
    "m", "e", "n", "t", ",", ",", "B", "o", "b">>

\* "5,unarmed,exhibition,Alice, ": a losers field of one blank
LineEmptyLoser ==
  <<"5", ",", "u", "n", "a", "r", "m", "e", "d", ",", "e", "x", "h", "i",
    "b", "i", "t", "i", "o", "n", ",", "A", "l", "i", "c", "e", ",", " ">>

\* " 6, unarmed ,exhibition, Carol , Alice & Bob! ,Dave": blanks around the fields and the tokens
LineSpaces ==
  <<" ", "6", ",", " ", "u", "n", "a", "r", "m", "e", "d", " ", ",", "e",
    "x", "h", "i", "b", "i", "t", "i", "o", "n", ",", " ", "C", "a", "r",
    "o", "l", " ", ",", " ", "A", "l", "i", "c", "e", " ", "&", " ", "B",
    "o", "b", "!", " ", ",", "D", "a", "v", "e">>

\* "7,armed,tournament,Bob,Alice!,Carol&Dave": a single loser, then a losing team
LineMixed ==
  <<"7", ",", "a", "r", "m", "e", "d", ",", "t", "o", "u", "r", "n", "a",
    "m", "e", "n", "t", ",", "B", "o", "b", ",", "A", "l", "i", "c", "e",
    "!", ",", "C", "a", "r", "o", "l", "&", "D", "a", "v", "e">>

\* "8,unarmed,tournament,Alice,Alice*": the same participant on both sides
LineSelf ==
  <<"8", ",", "u", "n", "a", "r", "m", "e", "d", ",", "t", "o", "u", "r",
    "n", "a", "m", "e", "n", "t", ",", "A", "l", "i", "c", "e", ",", "A",
    "l", "i", "c", "e", "*">>

Catalogue ==
  {LineBlank, LineComment, LineThreeFields, LineThreeFieldsTeam,
   LineNoLoser, LineDuel, LineRematch, LineOneVsTeam,
   LineThreeWay, LineTeamWins, LineMarks, LineEmptyWinner,
   LineEmptyLoser, LineSpaces, LineMixed, LineSelf}

Alice == <<"A", "l", "i", "c", "e">>
Bob == <<"B", "o", "b">>
Carol == <<"C", "a", "r", "o", "l">>
Dave == <<"D", "a", "v", "e">>

---------------------------------------------------------------------------
(* main() *)

VARIABLES
  lines,      \* the lines of the input file
  category,   \* the index in CATEGORIES of the category being run
  elo,        \* the Elo instance of that category
  line_no,    \* the index in lines of the next line process_all feeds
  call,       \* the most recent call of elo.process, as it returned
  printed,    \* the reports printed so far, one per category
  pc          \* "run", "done" (main returned), "aborted" (assert failed)

vars == <<lines, category, elo, line_no, call, printed, pc>>

NoCall ==
  returned("none", NewElo(OVERALL), NewElo(OVERALL), <<>>, <<>>,
           NoLoops, EmptyDict)

\* bytes.split("\n") is any file of at most MaxLines lines; the first
\* instance is built.
Init ==
  /\ lines \in UNION {[1..n -> Catalogue] : n \in 0..MaxLines}
  /\ category = 1
  /\ elo = NewElo(CATEGORIES[1])
  /\ line_no = 1
  /\ call = NoCall
  /\ printed = <<>>
  /\ pc = "run"

\* The call of process returns r, or raises: an AssertionError is caught
\* nowhere and ends the program.
Return(r) ==
  /\ call' = r
  /\ IF r.outcome = "raised"
     THEN /\ pc' = "aborted"
          /\ UNCHANGED <<elo, line_no>>
     ELSE /\ elo' = r.self
          /\ line_no' = line_no + 1
          /\ pc' = pc

\* process_all: self.process(line) for the next line.
Process ==
  /\ pc = "run"
  /\ line_no <= Len(lines)
  /\ Return(process(elo, lines[line_no]))
  /\ UNCHANGED <<lines, category, printed>>

\* process_all has returned: elo.output(), then the next category's
\* instance, or the end of main.
Output ==
  /\ pc = "run"
  /\ line_no > Len(lines)
  /\ printed' = Append(printed, output(elo))
  /\ IF category < Len(CATEGORIES)
     THEN /\ category' = category + 1
          /\ elo' = NewElo(CATEGORIES[category + 1])
          /\ line_no' = 1
          /\ pc' = pc
     ELSE /\ pc' = "done"
          /\ UNCHANGED <<category, elo, line_no>>
  /\ UNCHANGED <<lines, call>>

Next == Process \/ Output

Spec == Init /\ [][Next]_vars

---------------------------------------------------------------------------
(* Notions the properties below are stated in. *)

\* The most recent call of process applied its record to the tables.
Applied == call.outcome = "applied"

RECURSIVE SumOver(_, _)
SumOver(t, keys) ==
  IF keys = {} THEN Rat(0)
  ELSE LET k == CHOOSE k \in keys : TRUE
       IN  RAdd(t[k], SumOver(t, keys \ {k}))

\* The sum of the values of a table of rationals.
SumOf(t) == SumOver(t, DOMAIN t)

\* The places <<team, member>> of the tokens of a list of teams.
Places(lists) ==
  UNION {{<<i, k>> : k \in 1..Len(lists[i])} : i \in 1..Len(lists)}

TokenAt(lists, p) == lists[p[1]][p[2]]

Marks == {"!", "*"}

\* A token without its trailing marks, said without a loop: its longest
\* prefix that is empty or ends in a character that is no mark.
Stripped(tok) ==
  LET ends == {i \in 0..Len(tok) : i = 0 \/ tok[i] \notin Marks}
      m == CHOOSE i \in ends : \A j \in ends : j <= i
  IN  SubSeq(tok, 1, m)

\* The rating of a participant in a table, STARTING_RATING when absent.
RatingIn(ratings, name) == Get(ratings, name, Rat(STARTING_RATING))

\* The win and the draw sub-contests of the log, by the places of the
\* loser token being processed and of its opponent.
LoggedWins == {<<call.loops.log[i].loser, call.loops.log[i].opp>> :
                 i \in {j \in 1..Len(call.loops.log) :
                          call.loops.log[j].w = Rat(1)}}
LoggedDraws == {<<call.loops.log[i].loser, call.loops.log[i].opp>> :
                  i \in {j \in 1..Len(call.loops.log) :
                           call.loops.log[j].w = Norm(1, 2)}}

\* One single-member winning side and one losing side of two teammates.
OneAgainstPair ==
  /\ Len(call.winner_lists) = 1 /\ Len(call.winner_lists[1]) = 1
  /\ Len(call.loser_lists) = 1 /\ Len(call.loser_lists[1]) = 2

---------------------------------------------------------------------------
(* C1 *)

\* C1: rating mass is conserved.  The normalized deltas that a call of
\* process adds to the rating table sum to zero, and in every state the
\* ratings of the table sum to 1500 times the number of its participants.
C1_RatingMassConserved ==
  /\ Applied => SumOf(call.adjusted_deltas) = Rat(0)
  /\ SumOf(elo.ratings)
       = Rat(STARTING_RATING * Cardinality(DOMAIN elo.ratings))

\* A second match with several sides has moved ratings that were no
\* longer all at 1500.
C1_Witness ==
  /\ Applied
  /\ line_no = 3
  /\ Len(call.loser_lists) >= 2
  /\ \E n \in DOMAIN call.before.ratings :
       call.before.ratings[n] # Rat(STARTING_RATING)
  /\ \E n \in DOMAIN call.adjusted_deltas :
       call.adjusted_deltas[n] # Rat(0)

---------------------------------------------------------------------------
(* C2 *)

\* C2: within one call of process every sub-contest reads the ratings as
\* they stood before the match, no rating is written while the
\* sub-contests are enumerated (reading only inserts absent participants
\* at 1500), and the normalized deltas are then added in one batch.
C2_PreMatchSnapshot ==
  Applied =>
    /\ \A i \in 1..Len(call.loops.log) :
         LET e == call.loops.log[i]
         IN  /\ e.r1 = RatingIn(call.before.ratings, e.first)
             /\ e.r2 = RatingIn(call.before.ratings, e.second)
             /\ e.delta = rating_delta(e.r1, e.r2, e.w)
    /\ \A n \in DOMAIN call.loops.ratings :
         call.loops.ratings[n] = RatingIn(call.before.ratings, n)
    /\ DOMAIN call.before.ratings \subseteq DOMAIN call.loops.ratings
    /\ DOMAIN call.self.ratings = DOMAIN call.loops.ratings
    /\ \A n \in DOMAIN call.self.ratings :
         call.self.ratings[n] =
           RAdd(RatingIn(call.before.ratings, n),
                Get(call.adjusted_deltas, n, Rat(0)))

\* A match in which a participant whose rating had already moved takes
\* part in several sub-contests.
C2_Witness ==
  /\ Applied
  /\ \E i, j \in 1..Len(call.loops.log) :
       /\ i < j
       /\ call.loops.log[i].first = call.loops.log[j].first
       /\ call.loops.log[i].r1 # Rat(STARTING_RATING)
       /\ call.loops.log[i].delta # call.loops.log[j].delta

---------------------------------------------------------------------------
(* C3 *)

---------------------------------------------------------------------------
(* C4 *)

\* What the scenario ends with: one sub-contest, opponent count 1,
\* Alice 1525 with one win, Bob 1475 with one loss.
AliceBeatBob ==
  /\ Len(call.loops.log) = 1
  /\ call.loops.opponent_count = 1
  /\ call.loops.log[1].delta = RMulInt(RSub(Rat(1), Norm(1, 2)), 50)
  /\ call.loops.deltas[Alice] = call.loops.log[1].delta
  /\ call.loops.deltas[Bob] = RSub(Rat(0), call.loops.log[1].delta)
  /\ elo.ratings = (Alice :> Rat(1525)) @@ (Bob :> Rat(1475))
  /\ Get(elo.wins, Alice, 0) = 1 /\ Get(elo.losses, Alice, 0) = 0
  /\ Get(elo.wins, Bob, 0) = 0 /\ Get(elo.losses, Bob, 0) = 1

\* C4, as stated: processing the single record "1,Alice,Bob" from fresh
\* tables ends with Alice 1525, Bob 1475, Alice 1-0 and Bob 0-1.
C4_AsStated ==
  (lines = <<LineThreeFields>> /\ call.outcome # "none") =>
    (Applied /\ AliceBeatBob)

\* C4, amended: the record needs its two category fields.  Processing the
\* single record "1,armed,tournament,Alice,Bob" from fresh tables, by an
\* instance whose category does not filter it out, produces exactly one
\* sub-contest with opponent count 1 and ends with Alice 1525, Bob 1475,
\* Alice 1-0 and Bob 0-1; the instances of the categories "group",
\* "unarmed" and "exhibition" filter it out and keep their tables empty.
C4_AliceBeatsBob ==
  (lines = <<LineDuel>> /\ line_no = 2) =>
    IF CATEGORIES[category] \in {GROUP, UNARMED, EXHIBITION}
    THEN call.outcome = "filtered" /\ elo = NewElo(CATEGORIES[category])
    ELSE Applied /\ AliceBeatBob

\* The duel has been applied to the fresh tables of the first instance.
C4_Witness ==
  /\ lines = <<LineDuel>> /\ line_no = 2 /\ category = 1
  /\ Applied
  /\ elo.ratings[Alice] = Rat(1525)

---------------------------------------------------------------------------
(* C5 *)

\* The number of tokens of the teams of lists that name the participant.
TokensOf(lists, name) ==
  Cardinality({p \in Places(lists) : Stripped(TokenAt(lists, p)) = name})

\* The number of ch in the tokens of both sides that name the participant.
MarksOf(name, ch) ==
  LET Sum(lists) ==
        LET ps == {p \in Places(lists) :
                     Stripped(TokenAt(lists, p)) = name}
            RECURSIVE S(_)
            S(rest) ==
              IF rest = {} THEN 0
              ELSE LET p == CHOOSE p \in rest : TRUE
                   IN  Cardinality({i \in 1..Len(TokenAt(lists, p)) :
                                      TokenAt(lists, p)[i] = ch})
                       + S(rest \ {p})
        IN  S(ps)
  IN  Sum(call.winner_lists) + Sum(call.loser_lists)

Participants(self) ==
  DOMAIN self.wins \cup DOMAIN self.losses \cup DOMAIN self.killings
    \cup DOMAIN self.maimings \cup DOMAIN self.ratings

\* C5: an applied record adds to each participant's win count the number
\* of winning tokens, and to the loss count the number of losing tokens,
\* that name the participant once their trailing marks are stripped, and
\* adds the '!' and the '*' of those tokens to the two tally counters;
\* nobody else's statistics change, and the sub-contests use the same
\* stripped names as keys of the rating table.
C5_Statistics ==
  Applied =>
    /\ \A name \in Participants(call.before) \cup Participants(call.self) :
         /\ Get(call.self.wins, name, 0) =
              Get(call.before.wins, name, 0)
                + TokensOf(call.winner_lists, name)
         /\ Get(call.self.losses, name, 0) =
              Get(call.before.losses, name, 0)
                + TokensOf(call.loser_lists, name)
         /\ Get(call.self.killings, name, 0) =
              Get(call.before.killings, name, 0) + MarksOf(name, "!")
         /\ Get(call.self.maimings, name, 0) =
              Get(call.before.maimings, name, 0) + MarksOf(name, "*")
    /\ \A p \in Places(call.winner_lists) \cup Places(call.loser_lists) :
         /\ p \in Places(call.winner_lists) =>
              Stripped(TokenAt(call.winner_lists, p)) \in DOMAIN call.self.wins
         /\ p \in Places(call.loser_lists) =>
              Stripped(TokenAt(call.loser_lists, p)) \in DOMAIN call.self.losses
    /\ \A i \in 1..Len(call.loops.log) :
         LET e == call.loops.log[i]
             loser == Stripped(TokenAt(call.loser_lists, e.loser))
             opp == IF e.w = Rat(1)
                    THEN Stripped(TokenAt(call.winner_lists, e.opp))
                    ELSE Stripped(TokenAt(call.loser_lists, e.opp))
         IN  /\ {e.first, e.second} = {loser, opp}
             /\ {loser, opp} \subseteq DOMAIN call.self.ratings
             /\ {loser, opp} \subseteq Participants(
                                         [call.self EXCEPT
                                            !.ratings = EmptyDict])

\* "Dave!!*" has beaten "Bob*" when Bob already had statistics.
C5_Witness ==
  /\ Applied
  /\ call.winner_lists = <<<<Dave \o <<"!", "!", "*">>>>>>
  /\ Bob \in DOMAIN call.before.losses
  /\ call.self.killings[Dave] = 2
  /\ call.self.maimings[Dave] = 1
  /\ call.self.maimings[Bob] >= 1

---------------------------------------------------------------------------
(* C6, C7, C8 *)

\* C6: every record that process accepts has a non-empty list of losing
\* sides; a record with a winner field and no loser field is a fatal
\* error.
C6_LosersNonEmpty ==
  call.outcome \in {"applied", "filtered"} => Len(call.loser_lists) >= 1

\* The teams of token lists that hold no participant: every token empty.
EmptySides(lists) ==
  {i \in 1..Len(lists) : \A k \in 1..Len(lists[i]) : lists[i][k] = <<>>}

\* C7: a record with a side that holds no participant is a fatal error;
\* process never accepts one.
C7_EmptySideIsFatal ==
  call.outcome \in {"applied", "filtered"} =>
    /\ EmptySides(call.winner_lists) = {}
    /\ EmptySides(call.loser_lists) = {}

\* C8: the divisor of a match, the opponent count it ends with, is the
\* number of sub-contests counted for each of its loser tokens.
C8_SharedOpponentCount ==
  Applied =>
    \A i \in 1..Len(call.loops.counts) :
      call.loops.counts[i] = call.loops.opponent_count

---------------------------------------------------------------------------
(* C9 *)

\* C9: the sub-contests of a match are exactly one win for every pair of
\* a winner token and a loser token, and one draw for every pair of loser
\* tokens of two different losing sides, made once, when the token of
\* the earlier side is the loser being processed.
C9_SubContests ==
  Applied =>
    /\ LoggedWins = Places(call.loser_lists) \X Places(call.winner_lists)
    /\ LoggedDraws =
         {pq \in Places(call.loser_lists) \X Places(call.loser_lists) :
            pq[1][1] < pq[2][1]}
    /\ Len(call.loops.log) =
         Cardinality(LoggedWins) + Cardinality(LoggedDraws)
    /\ \A i \in 1..Len(call.loops.log) :
         call.loops.log[i].w \in {Rat(1), Norm(1, 2)}
    /\ \A pq \in LoggedDraws :
         /\ pq[1][1] # pq[2][1]
         /\ <<pq[2], pq[1]>> \notin LoggedDraws
    /\ \A i \in 1..Len(call.loops.log) :
         call.loops.log[i].w = Norm(1, 2) =>
           call.loops.log[i].first =
             Stripped(TokenAt(call.loser_lists, call.loops.log[i].loser))

\* A match with a single loser and a losing team of two: two draws, and
\* none between the teammates.
C9_Witness ==
  /\ Applied
  /\ Len(call.loser_lists) = 2
  /\ Len(call.loser_lists[2]) = 2
  /\ Cardinality(LoggedWins) = 3
  /\ LoggedDraws = {<<<<1, 1>>, <<2, 1>>>>, <<<<1, 1>>, <<2, 2>>>>}

---------------------------------------------------------------------------
(* C10 *)

\* A line that process skips, or a record with at least one loser field.
Stated(line) ==
  \/ strip(line) = <<>>
  \/ startswith(strip(line), "#")
  \/ Len(split(strip(line), ",")) >= 5

IsRecord(line) ==
  /\ strip(line) # <<>>
  /\ ~startswith(strip(line), "#")
  /\ Len(split(strip(line), ",")) >= 5

\* The count a report prints for a participant, 0 when it has no row.
Printed(rep, field, name) ==
  IF \E i \in 1..Len(rep.rows) : rep.rows[i].name = name
  THEN (rep.rows[CHOOSE i \in 1..Len(rep.rows) :
                   rep.rows[i].name = name])[field]
  ELSE 0

Named(rep) == {rep.rows[i].name : i \in 1..Len(rep.rows)}

\* C10: every well-formed record is applied by exactly one of the
\* "group" and the "individual" instance, and left alone by the other,
\* and "overall" applies it; so for a file of well-formed records every
\* participant's wins and losses in the "overall" report are the sums of
\* those in the "group" and the "individual" reports.
C10_GroupIndividualPartition ==
  /\ (line_no > 1 /\ IsRecord(lines[line_no - 1])) =>
       LET record == lines[line_no - 1]
           overall == process(NewElo(OVERALL), record)
           group == process(NewElo(GROUP), record)
           individual == process(NewElo(INDIVIDUAL), record)
       IN  /\ overall.outcome = "applied"
           /\ {group.outcome, individual.outcome} = {"applied", "filtered"}
           /\ group.outcome = "filtered" => group.self = NewElo(GROUP)
           /\ individual.outcome = "filtered" =>
                individual.self = NewElo(INDIVIDUAL)
           /\ call.outcome = "filtered" => call.self = call.before
  /\ ((\A i \in 1..Len(lines) : Stated(lines[i])) /\ Len(printed) >= 3) =>
       /\ printed[1].category = OVERALL
       /\ printed[2].category = GROUP
       /\ printed[3].category = INDIVIDUAL
       /\ Named(printed[1]) = Named(printed[2]) \cup Named(printed[3])
       /\ \A name \in Named(printed[1]) :
            /\ Printed(printed[1], "wins", name) =
                 Printed(printed[2], "wins", name)
                   + Printed(printed[3], "wins", name)
            /\ Printed(printed[1], "losses", name) =
                 Printed(printed[2], "losses", name)
                   + Printed(printed[3], "losses", name)

\* The three reports are out for a file with a group record and an
\* individual record that share a participant.
C10_Witness ==
  /\ Len(printed) >= 3
  /\ \A i \in 1..Len(lines) : IsRecord(lines[i])
  /\ \E name \in Named(printed[1]) :
       /\ Printed(printed[2], "wins", name) >= 1
       /\ Printed(printed[3], "wins", name) >= 1

===========================================================================
